---- MODULE Spec2Model ----
(***************************************************************************)
(* Model of the text-classification and response-composition pipeline of   *)
(* the mental-health companion, of its chat endpoint and of the desktop    *)
(* program's start-up, as implemented twice:                               *)
(*   src/main.py            (the FastAPI service, program "main")          *)
(*   src/unnamed/part_000   (the desktop program "New Jungian Model.py",   *)
(*                           program "jungian")                            *)
(*                                                                         *)
(* Texts are TLA+ strings; matching is done character by character with    *)
(* SubSeq, as Python's `in` and re.search do on literal alternatives.      *)
(* The source's non-ASCII characters are written in ASCII here: the bullet *)
(* U+2022 is "*", the typographic apostrophe U+2019 is "'", and the waving *)
(* hand emoji of the greeting template is ":)"; the emoji that open the    *)
(* lines of the chat window are left out.                                  *)
(*                                                                         *)
(* Numbers with three decimals (polarity, subjectivity, the reported       *)
(* score) are integers in thousandths.                                     *)
(***************************************************************************)
EXTENDS Integers, Sequences, FiniteSets, TLC

VARIABLES
    program,                 \* which of the two source files is running
    pc,                      \* position inside generate_comprehensive_response
    user_message,            \* the request's message text
    mental_health_analysis,  \* result of analyze_mental_health_needs
    resources,               \* result of get_recommended_resources (ordered dict)
    sympathy_analysis,       \* result of analyze_sympathy
    response_type,           \* tag chosen by the branch selection
    base_response,           \* the template chosen by the branch selection
    resource_response,       \* result of create_mental_health_response
    full_response,           \* the composed message
    request,                 \* the body of the POST /mental-health-guide at hand
    http_response,           \* the HTTP response of the endpoint
    calls,                   \* the concurrent calls of the core, one per request
    frames,                  \* the local variables of the concurrent calls
    class_tables,            \* CONCERN_PATTERNS and MENTAL_HEALTH_RESOURCES (class attributes)
    api_thread,              \* the daemon thread running uvicorn (desktop program)
    window,                  \* the main thread of the desktop program
    session_id,              \* MentalHealthChat.session_id
    conversation,            \* what the chat window has appended to its text area
    error_box                \* the last QMessageBox.critical text

coreVars == << program, pc, user_message, mental_health_analysis, resources,
               sympathy_analysis, response_type, base_response, resource_response,
               full_response >>
endpointVars == << request, http_response >>
concurrentVars == << calls, frames >>
desktopVars == << api_thread, window, session_id, conversation, error_box >>

\* What a call of the core leaves alone.
otherVars == << endpointVars, concurrentVars, class_tables, desktopVars >>

vars == << coreVars, otherVars >>

-----------------------------------------------------------------------------
(* Bounds of the model *)

\* A message is at most MaxWords vocabulary fragments joined by blanks.
MaxWords == 2

\* The number of chat requests handled at the same time.
NumRequests == 2

\* The number of messages sent from the chat window.
MaxSends == 2

-----------------------------------------------------------------------------
(* String primitives: str.lower, str.strip, the `in` operator *)

UpperLetters == "ABCDEFGHIJKLMNOPQRSTUVWXYZ"
LowerLetters == "abcdefghijklmnopqrstuvwxyz"

\* The upper-case letters, and the lower-case letter of each.
UpperSet == {SubSeq(UpperLetters, i, i) : i \in 1..Len(UpperLetters)}
LowerOf ==
    [c \in UpperSet |->
        LET i == CHOOSE k \in 1..Len(UpperLetters) : SubSeq(UpperLetters, k, k) = c
        IN  SubSeq(LowerLetters, i, i)]

\* One character of str.lower(): an upper-case letter becomes its lower-case
\* letter, anything else is kept.
LowerChar(c) == IF c \in UpperSet THEN LowerOf[c] ELSE c

RECURSIVE LowerFrom(_, _)
LowerFrom(s, i) ==
    IF i > Len(s) THEN "" ELSE LowerChar(SubSeq(s, i, i)) \o LowerFrom(s, i + 1)

\* str.lower()
Lower(s) == LowerFrom(s, 1)

IsSpace(c) == c \in {" ", "\t", "\n", "\r"}

\* str.strip(): leading and trailing whitespace removed.
Strip(s) ==
    LET idx == {i \in 1..Len(s) : ~IsSpace(SubSeq(s, i, i))}
    IN  IF idx = {} THEN ""
        ELSE LET lo == CHOOSE i \in idx : \A j \in idx : i <= j
                 hi == CHOOSE i \in idx : \A j \in idx : j <= i
             IN  SubSeq(s, lo, hi)

\* A mutant of Contains: an empty haystack is taken to contain every needle.
ContainsInEmpty(haystack, needle) ==
    \/ haystack = ""
    \/ \E i \in 1..(Len(haystack) - Len(needle) + 1) :
          SubSeq(haystack, i, i + Len(needle) - 1) = needle

\* Python's `needle in haystack` on strings: substring occurrence.
Contains(haystack, needle) ==
    \E i \in 1..(Len(haystack) - Len(needle) + 1) :
        SubSeq(haystack, i, i + Len(needle) - 1) = needle

\* any(word in text for word in words), words a sequence of strings.
AnyIn(words, text) == \E k \in 1..Len(words) : Contains(text, words[k])

-----------------------------------------------------------------------------
(* The fixed tables *)

\* Declaration (dict iteration) order of CONCERN_PATTERNS.
CategoryOrder ==
    << "crisis_immediate", "depression_signs", "anxiety_signs", "trauma_signs" >>

\* CONCERN_PATTERNS. Every pattern of the source is one parenthesised
\* alternation of literals, written here as the sequence of its alternatives.
CONCERN_PATTERNS ==
    [ crisis_immediate |->
        [ patterns |-> <<
            << "suicide", "kill myself", "end my life", "want to die", "better off dead" >>,
            << "going to hurt myself", "self harm", "cutting", "self injury" >>,
            << "no reason to live", "can't go on", "end it all" >> >>,
          urgency |-> "immediate",
          response_level |-> "crisis" ],
      depression_signs |->
        [ patterns |-> <<
            << "depressed", "clinical depression", "major depression" >>,
            << "hopeless", "worthless", "empty inside" >>,
            << "can't get out of bed", "no energy", "no motivation" >>,
            << "losing interest", "don't enjoy anything" >>,
            << "crying every day", "constant sadness" >>,
            << "sleeping too much", "too little", "appetite changes" >>,
            << "thoughts of death", "suicidal thoughts" >> >>,
          urgency |-> "high",
          response_level |-> "professional" ],
      anxiety_signs |->
        [ patterns |-> <<
            << "panic attack", "anxiety attack" >>,
            << "constant worry", "can't stop worrying" >>,
            << "heart racing", "can't breathe", "chest tight" >>,
            << "avoiding situations", "too anxious to" >>,
            << "obsessive thoughts", "compulsive behaviors" >> >>,
          urgency |-> "moderate",
          response_level |-> "professional" ],
      trauma_signs |->
        [ patterns |-> <<
            << "flashbacks", "nightmares", "ptsd" >>,
            << "traumatic memory", "childhood trauma" >>,
            << "triggered", "reminded of trauma" >>,
            << "dissociating", "feeling numb" >> >>,
          urgency |-> "high",
          response_level |-> "professional" ] ]

\* MENTAL_HEALTH_RESOURCES, the resource catalog.
MENTAL_HEALTH_RESOURCES ==
    [ immediate_crisis |->
        [ name |-> "Immediate Crisis Support",
          description |-> "Available 24/7 for immediate help",
          resources |-> << "Vandrevala Foundation: 9999666555",
                           "iCall: 9152987821",
                           "AASRA: 9820466726",
                           "Emergency: 112/108" >> ],
      therapy_services |->
        [ name |-> "Professional Therapy",
          description |-> "Licensed mental health professionals",
          resources |-> << "Practo - Find Psychiatrists & Therapists",
                           "Lybrate - Online Mental Health Consultations",
                           "YourDOST - Online Counseling",
                           "Manastha - Online Therapy" >> ],
      depression_support |->
        [ name |-> "Depression Support",
          description |-> "Specialized depression resources",
          resources |-> << "Fortis Stress Helpline: +91-8376804102",
                           "NIMHANS Bangalore: 080-46110007",
                           "Depression and Bipolar Support Alliance" >> ],
      anxiety_support |->
        [ name |-> "Anxiety Support",
          description |-> "Anxiety-specific help and tools",
          resources |-> << "Anxiety and Depression Association of America",
                           "Calm App for anxiety management",
                           "Headspace for mindfulness" >> ] ]

ResourceCategoryIds == DOMAIN MENTAL_HEALTH_RESOURCES

-----------------------------------------------------------------------------
(* MentalHealthResourceGuide.analyze_mental_health_needs *)

\* re.search(pattern, text) for one alternation of literals.
ReSearch(pattern, text) == AnyIn(pattern, text)

\* The inner loop `for pattern in concern_info["patterns"]` with its break:
\* the index of the first pattern that matches, 0 when none does.
RECURSIVE FirstMatch(_, _, _)
FirstMatch(patterns, text, j) ==
    IF j > Len(patterns) THEN 0
    ELSE IF ReSearch(patterns[j], text) THEN j
    ELSE FirstMatch(patterns, text, j + 1)

\* A mutant of UpdateUrgency: the last matching category's urgency wins.
UpdateUrgencyLastWins(highest, urgency) == urgency

\* The if/elif chain that maintains highest_urgency.
UpdateUrgency(highest, urgency) ==
    IF urgency = "immediate" THEN "immediate"
    ELSE IF urgency = "high" /\ highest # "immediate" THEN "high"
    ELSE IF urgency = "moderate" /\ highest \notin {"immediate", "high"} THEN "moderate"
    ELSE highest

\* The concern record appended for a category.
Concern(concern_type) ==
    [ type |-> concern_type,
      urgency |-> CONCERN_PATTERNS[concern_type].urgency,
      response_level |-> CONCERN_PATTERNS[concern_type].response_level ]

\* A mutant of Detect: the inner loop without its break, one concern appended
\* for every pattern that matches.
RECURSIVE DetectNoBreak(_, _, _)
DetectNoBreak(concern_type, text, j) ==
    IF j > Len(CONCERN_PATTERNS[concern_type].patterns) THEN << >>
    ELSE (IF ReSearch(CONCERN_PATTERNS[concern_type].patterns[j], text)
          THEN << Concern(concern_type) >> ELSE << >>)
         \o DetectNoBreak(concern_type, text, j + 1)

\* What the inner loop appends to detected_concerns for one category, its
\* patterns tried from the j-th on: one concern at the first pattern that
\* matches (then break), nothing when none matches.
Detect(concern_type, text, j) ==
    IF FirstMatch(CONCERN_PATTERNS[concern_type].patterns, text, j) > 0
    THEN << Concern(concern_type) >>
    ELSE << >>

\* A mutant of AnalysisResult: moderate urgency also asks for professional
\* help.
AnalysisResultModerateIsProfessional(detected, highest) ==
    [ detected_concerns |-> detected,
      highest_urgency |-> highest,
      needs_immediate_help |-> (highest = "immediate"),
      needs_professional_help |-> (highest \in {"immediate", "high", "moderate"}) ]

\* The dict returned by analyze_mental_health_needs.
AnalysisResult(detected, highest) ==
    [ detected_concerns |-> detected,
      highest_urgency |-> highest,
      needs_immediate_help |-> (highest = "immediate"),
      needs_professional_help |-> (highest \in {"immediate", "high"}) ]

\* The outer loop over the categories, taken in the given order; `lowered`
\* is text.lower(), which every re.search of the loop is given.
RECURSIVE AnalyzeLoop(_, _, _, _, _)
AnalyzeLoop(lowered, order, i, detected, highest) ==
    IF i > Len(order)
    THEN AnalysisResult(detected, highest)
    ELSE LET concern_type == order[i]
             found == Detect(concern_type, lowered, 1)
         IN  IF found # << >>
             THEN AnalyzeLoop(lowered, order, i + 1, detected \o found,
                      UpdateUrgency(highest, CONCERN_PATTERNS[concern_type].urgency))
             ELSE AnalyzeLoop(lowered, order, i + 1, detected, highest)

\* analyze_mental_health_needs with the categories iterated in `order`.
AnalyzeInOrder(text, order) ==
    LET lowered == Lower(text)
    IN  AnalyzeLoop(lowered, order, 1, << >>, "low")

\* analyze_mental_health_needs as the program runs it (declaration order).
analyze_mental_health_needs(text) == AnalyzeInOrder(text, CategoryOrder)

-----------------------------------------------------------------------------
(* MentalHealthResourceGuide.get_recommended_resources *)

Range(seq) == {seq[i] : i \in 1..Len(seq)}

\* A mutant of ConcernCategories: an anxiety concern also appends
\* therapy_services.
ConcernCategoriesAnxietyTherapy(concern) ==
    IF concern.type = "depression_signs" THEN << "depression_support" >>
    ELSE IF concern.type = "anxiety_signs" THEN << "anxiety_support", "therapy_services" >>
    ELSE IF concern.type = "trauma_signs" THEN << "therapy_services" >>
    ELSE << >>

\* The per-concern if/elif chain: what one detected concern appends.
ConcernCategories(concern) ==
    IF concern.type = "depression_signs" THEN << "depression_support" >>
    ELSE IF concern.type = "anxiety_signs" THEN << "anxiety_support" >>
    ELSE IF concern.type = "trauma_signs" THEN << "therapy_services" >>
    ELSE << >>

RECURSIVE ConcernLoop(_, _)
ConcernLoop(concerns, i) ==
    IF i > Len(concerns) THEN << >>
    ELSE ConcernCategories(concerns[i]) \o ConcernLoop(concerns, i + 1)

\* A mutant of ResourceCategoryList: the crisis category is added for every
\* request that needs professional help.
ResourceCategoryListCrisisAlways(analysis) ==
    (IF analysis.needs_professional_help
     THEN << "immediate_crisis", "therapy_services" >> ELSE << >>)
    \o ConcernLoop(analysis.detected_concerns, 1)

\* The list resource_categories, duplicates included, in append order.
ResourceCategoryList(analysis) ==
    (IF analysis.needs_immediate_help THEN << "immediate_crisis" >> ELSE << >>)
    \o (IF analysis.needs_professional_help THEN << "therapy_services" >> ELSE << >>)
    \o ConcernLoop(analysis.detected_concerns, 1)

\* All orders in which the elements of a set can be listed: list(set(...))
\* gives no order guarantee (string hashing is randomised per process).
Orderings(S) ==
    {seq \in [1..Cardinality(S) -> S] : \A i, j \in 1..Cardinality(S) :
                                            i # j => seq[i] # seq[j]}

\* The dict `resources` filled in the order of unique_categories: an ordered
\* sequence of items (key, value), the value being the catalog entry.
BuildResources(unique_categories) ==
    [i \in 1..Len(unique_categories) |->
        [ key |-> unique_categories[i],
          value |-> MENTAL_HEALTH_RESOURCES[unique_categories[i]] ]]

\* The set of bundles get_recommended_resources may return for an analysis.
get_recommended_resources(analysis) ==
    {BuildResources(u) : u \in Orderings(Range(ResourceCategoryList(analysis)))}

Keys(bundle) == {bundle[i].key : i \in 1..Len(bundle)}

-----------------------------------------------------------------------------
(* MentalHealthResourceGuide.create_mental_health_response *)

\* for resource in lines: response += "* " + resource + "\n"
RECURSIVE BulletLines(_, _)
BulletLines(lines, i) ==
    IF i > Len(lines) THEN ""
    ELSE "* " \o lines[i] \o "\n" \o BulletLines(lines, i + 1)

\* lines[:n]
Take(lines, n) == SubSeq(lines, 1, IF Len(lines) < n THEN Len(lines) ELSE n)

\* resources.get("immediate_crisis", {}).get("resources", [])
CrisisLines(bundle) ==
    IF \E i \in 1..Len(bundle) : bundle[i].key = "immediate_crisis"
    THEN (bundle[CHOOSE i \in 1..Len(bundle) : bundle[i].key = "immediate_crisis"]).value.resources
    ELSE << >>

\* The loop of the professional tier over resources.items().
RECURSIVE ProfessionalBlocks(_, _)
ProfessionalBlocks(bundle, i) ==
    IF i > Len(bundle) THEN ""
    ELSE (IF bundle[i].key # "immediate_crisis"
          THEN "\n" \o bundle[i].value.name \o " - " \o bundle[i].value.description \o ":\n"
               \o BulletLines(bundle[i].value.resources, 1)
          ELSE "")
         \o ProfessionalBlocks(bundle, i + 1)

\* The loop of the low-urgency tier over resources.items().
RECURSIVE GeneralBlocks(_, _)
GeneralBlocks(bundle, i) ==
    IF i > Len(bundle) THEN ""
    ELSE "\n" \o bundle[i].value.name \o ":\n"
         \o BulletLines(Take(bundle[i].value.resources, 2), 1)
         \o GeneralBlocks(bundle, i + 1)

\* A mutant of CrisisTier: the crisis tier also lists the blocks of the other
\* bundled categories, in the bundle's order.
CrisisTierListsAll(bundle) ==
    "I'm deeply concerned about your safety.\n\n"
    \o "Please reach out to these crisis services immediately:\n"
    \o BulletLines(CrisisLines(bundle), 1)
    \o ProfessionalBlocks(bundle, 1)

CrisisTier(bundle) ==
    "I'm deeply concerned about your safety.\n\n"
    \o "What you're describing sounds incredibly painful, and your safety is the most important thing right now.\n\n"
    \o "Please reach out to these crisis services immediately:\n"
    \o BulletLines(CrisisLines(bundle), 1)
    \o "\nYou don't have to face this alone - there are trained professionals available right now who want to help you."

ProfessionalTier(bundle) ==
    "Thank you for sharing this with me.\n\n"
    \o "What you're experiencing sounds really challenging, and it takes courage to talk about it. These feelings deserve proper professional support.\n\n"
    \o "I strongly recommend connecting with these resources:\n"
    \o ProfessionalBlocks(bundle, 1)
    \o "\nA mental health professional can provide the proper assessment and support you deserve."

GeneralTier(bundle) ==
    "I hear you.\n\n"
    \o "It sounds like you're going through a difficult time. While I'm here to listen and offer perspectives, these resources might be helpful for additional support:\n"
    \o GeneralBlocks(bundle, 1)
    \o "\nRemember that seeking support is a sign of strength, not weakness."

\* A mutant of create_mental_health_response: the professional tier is tested
\* before the crisis tier, so a crisis gets the professional tier.
create_mental_health_response_ProfessionalFirst(analysis, bundle) ==
    IF analysis.needs_professional_help THEN ProfessionalTier(bundle)
    ELSE IF analysis.needs_immediate_help THEN CrisisTier(bundle)
    ELSE GeneralTier(bundle)

create_mental_health_response(analysis, bundle) ==
    IF analysis.needs_immediate_help THEN CrisisTier(bundle)
    ELSE IF analysis.needs_professional_help THEN ProfessionalTier(bundle)
    ELSE GeneralTier(bundle)

-----------------------------------------------------------------------------
(* IntegratedMentalHealthCompanion.analyze_sympathy *)

\* round(x, 3): polarity, subjectivity and the reported score have three
\* decimals; they are integers in thousandths.
Scale == 1000

\* raw_score / 1.5, with raw_score in millionths: the unrounded sympathy score
\* is the fraction (numerator / ScoreDen).
ScoreDen == 1500000

\* The thresholds 0.66 and 0.33 of the level, in thousandths.
HighThreshold == 660
ModerateThreshold == 330

Polarities == (0 - Scale)..Scale
Subjectivities == 0..Scale

Min(a, b) == IF a < b THEN a ELSE b
Max(a, b) == IF a > b THEN a ELSE b

\* A mutant of SympathyScoreNum: the cap min(1.0, .) is lost.
SympathyScoreNumUncapped(polarity, subjectivity) ==
    Max(0, 0 - polarity) * (Scale + subjectivity)

\* negative_factor, raw_score and sympathy_score in exact arithmetic: the
\* numerator of min(1, max(0, -polarity) * (1 + subjectivity) / 1.5) over
\* ScoreDen.
SympathyScoreNum(polarity, subjectivity) ==
    Min(ScoreDen, Max(0, 0 - polarity) * (Scale + subjectivity))

\* The code computes in binary floating point: the double it holds may lie
\* just below or just above the exact fraction (or on it). The sign of that
\* error decides a comparison or a rounding only where the exact value lies
\* on a threshold or half-way between two thousandths; there every sign is
\* possible, elsewhere the outcome does not depend on it.
OnThreshold(num) ==
    num * Scale = HighThreshold * ScoreDen \/ num * Scale = ModerateThreshold * ScoreDen
OnTie(num) == 2 * ((num * Scale) % ScoreDen) = ScoreDen
FloatErrs(num) == IF OnThreshold(num) \/ OnTie(num) THEN {0 - 1, 0, 1} ELSE {0}

\* sympathy_score >= threshold, on the unrounded double.
AtLeast(num, err, threshold) ==
    \/ num * Scale > threshold * ScoreDen
    \/ num * Scale = threshold * ScoreDen /\ err >= 0

\* A mutant of SympathyLevel: the two tests are in the wrong order, so the
\* level "high" is never given.
SympathyLevelModerateFirst(num, err) ==
    IF AtLeast(num, err, ModerateThreshold) THEN "moderate"
    ELSE IF AtLeast(num, err, HighThreshold) THEN "high"
    ELSE "low"

\* The if/elif chain that sets `level`.
SympathyLevel(num, err) ==
    IF AtLeast(num, err, HighThreshold) THEN "high"
    ELSE IF AtLeast(num, err, ModerateThreshold) THEN "moderate"
    ELSE "low"

\* round(sympathy_score, 3), in thousandths: to the nearest thousandth, an
\* exact half going the way of the floating-point error (to even without one).
Round3(num, err) ==
    LET q == (num * Scale) \div ScoreDen
        r == (num * Scale) % ScoreDen
    IN  IF 2 * r < ScoreDen THEN q
        ELSE IF 2 * r > ScoreDen THEN q + 1
        ELSE IF err < 0 THEN q
        ELSE IF err > 0 THEN q + 1
        ELSE IF q % 2 = 0 THEN q ELSE q + 1

\* The dict analyze_sympathy returns for the sentiment (polarity,
\* subjectivity) that TextBlob gave, already rounded to three decimals.
analyze_sympathy(polarity, subjectivity, err) ==
    LET num == SympathyScoreNum(polarity, subjectivity)
    IN  [ polarity |-> polarity,
          subjectivity |-> subjectivity,
          sympathy_score |-> Round3(num, err),
          sympathy_level |-> SympathyLevel(num, err) ]

-----------------------------------------------------------------------------
(* IntegratedMentalHealthCompanion.generate_comprehensive_response *)

Programs == {"main", "jungian"}

\* user_lower: main.py lower-cases, part_000 lower-cases and strips.
UserLower(prog, message) ==
    IF prog = "jungian" THEN Strip(Lower(message)) ELSE Lower(message)

GreetingWords ==
    << "hi", "hello", "hey", "greetings", "good morning", "good evening",
       "good afternoon" >>

PositiveWords ==
    << "happy", "joyful", "joy", "glad", "content", "cheerful", "delighted",
       "pleased", "excited" >>

GreetingTemplate ==
    "Hello! :) It's so nice to connect with you. How are you feeling today? "
    \o "You can share anything on your mind, and I'm here to listen with care."

HappyTemplate ==
    "It's wonderful to hear that you're feeling happy! Celebrating these moments of joy is so important. "
    \o "May your days be filled with many more such moments."

\* The if/elif chain of main.py over the topic keyword groups, in order.
MainTopicGroups ==
    << [ words |-> << "sad", "depressed", "hopeless", "empty", "can't get out of bed" >>,
         response_type |-> "depression_support",
         base_response |->
            "I hear the pain in what you're sharing. In Jungian terms, these dark periods can be the beginning "
            \o "of deep transformation. Your awareness of these feelings shows courage." ],
       [ words |-> << "anxious", "worried", "panic", "overwhelmed", "stress" >>,
         response_type |-> "anxiety_support",
         base_response |->
            "That sense of anxiety can be really challenging. Jung spoke about how anxiety often comes from "
            \o "parts of ourselves trying to be heard." ],
       [ words |-> << "dream", "dreamt", "dreamed", "nightmare" >>,
         response_type |-> "dream_analysis",
         base_response |->
            "Dreams are messages from your unconscious self. In Jungian psychology, every dream element can "
            \o "offer material worth exploring." ],
       [ words |-> << "trauma", "flashback", "ptsd", "nightmare" >>,
         response_type |-> "trauma_support",
         base_response |->
            "What you've experienced sounds deeply impactful. Jung believed the psyche has a capacity for healing." ] >>

MainGeneral ==
    [ response_type |-> "general_support",
      base_response |->
        "Thank you for sharing that with me. I'm here to listen and help you find the right support on your "
        \o "journey toward wholeness." ]

\* The if/elif chain of part_000 over the topic keyword groups, in order.
JungianTopicGroups ==
    << [ words |-> << "sad", "depressed", "hopeless", "empty", "can't get out of bed", "blue", "down" >>,
         response_type |-> "depression_support",
         base_response |->
            "I hear the profound sadness in your words. Remember, even in dark moments, "
            \o "there is hope for renewal. Your feelings are valid and you are not alone." ],
       [ words |-> << "anxious", "worried", "panic", "overwhelmed", "stress", "nervous", "tense" >>,
         response_type |-> "anxiety_support",
         base_response |->
            "Anxiety can feel overwhelming, but you're showing strength by speaking about it. "
            \o "Sometimes, just acknowledging these feelings is the first step to calming your mind." ],
       [ words |-> << "lonely", "isolated", "alone", "abandoned" >>,
         response_type |-> "loneliness_support",
         base_response |->
            "Feeling alone is tough. Remember, connection is possible and you are valued. "
            \o "Reaching out takes courage, and I'm here to listen." ],
       [ words |-> << "angry", "frustrated", "mad", "irritated" >>,
         response_type |-> "anger_support",
         base_response |->
            "Anger is a natural emotion. It can be a signal that something important needs attention. "
            \o "It's okay to feel this way, and expressing it can help bring clarity and relief." ],
       [ words |-> << "grateful", "thankful", "blessed" >>,
         response_type |-> "gratitude_support",
         base_response |->
            "Gratitude brings light into our lives. Thank you for sharing your positive feelings; "
            \o "celebrating these moments is an important part of well-being." ],
       [ words |-> << "hopeful", "optimistic", "encouraged" >>,
         response_type |-> "hope_support",
         base_response |->
            "It's wonderful to sense your hope and optimism. These feelings can be a guiding light "
            \o "on your path toward healing and growth." ],
       [ words |-> << "dream", "dreamt", "dreamed", "nightmare" >>,
         response_type |-> "dream_analysis",
         base_response |->
            "Dreams are voices from your unconscious. In Jungian psychology, exploring them can open "
            \o "new ways to understand your inner self." ],
       [ words |-> << "trauma", "flashback", "ptsd", "nightmare" >>,
         response_type |-> "trauma_support",
         base_response |->
            "What you've experienced is deeply impactful. Healing takes time and support, and Jung believed "
            \o "in the psyche's capacity to mend itself." ] >>

JungianGeneral ==
    [ response_type |-> "general_support",
      base_response |->
        "Thank you for sharing with me. I'm here to hold space for your journey and help you find the "
        \o "support that suits your needs." ]

TopicGroups(prog) == IF prog = "jungian" THEN JungianTopicGroups ELSE MainTopicGroups
General(prog) == IF prog = "jungian" THEN JungianGeneral ELSE MainGeneral

\* A mutant of SelectTopic: separate ifs instead of an elif chain, so the last
\* matching group wins.
RECURSIVE SelectTopicLastWins(_, _, _, _)
SelectTopicLastWins(groups, general, user_lower, i) ==
    IF i > Len(groups) THEN general
    ELSE LET rest == SelectTopicLastWins(groups, general, user_lower, i + 1)
         IN  IF rest # general \/ ~AnyIn(groups[i].words, user_lower) THEN rest
             ELSE [ response_type |-> groups[i].response_type,
                    base_response |-> groups[i].base_response ]

\* The first group, from index i on, one of whose keywords occurs in the text;
\* the final else when none does.
RECURSIVE SelectTopic(_, _, _, _)
SelectTopic(groups, general, user_lower, i) ==
    IF i > Len(groups) THEN general
    ELSE IF AnyIn(groups[i].words, user_lower)
         THEN [ response_type |-> groups[i].response_type,
                base_response |-> groups[i].base_response ]
         ELSE SelectTopic(groups, general, user_lower, i + 1)

\* The tests of the two fixed-template branches, which only part_000 has.
GreetingMatch(prog, user_lower) == prog = "jungian" /\ AnyIn(GreetingWords, user_lower)
PositiveMatch(prog, user_lower) == prog = "jungian" /\ AnyIn(PositiveWords, user_lower)

\* A mutant of SelectBranch: the positive-mood test comes before the greeting
\* test.
SelectBranchPositiveFirst(prog, user_lower) ==
    IF PositiveMatch(prog, user_lower)
    THEN [ response_type |-> "happy_support", base_response |-> HappyTemplate, fixed |-> TRUE ]
    ELSE IF GreetingMatch(prog, user_lower)
    THEN [ response_type |-> "greeting", base_response |-> GreetingTemplate, fixed |-> TRUE ]
    ELSE LET t == SelectTopic(TopicGroups(prog), General(prog), user_lower, 1)
         IN  [ response_type |-> t.response_type, base_response |-> t.base_response,
               fixed |-> FALSE ]

\* The outer if/elif/else: which template and tag the message gets, and
\* whether the reply is the fixed template alone.
SelectBranch(prog, user_lower) ==
    IF GreetingMatch(prog, user_lower)
    THEN [ response_type |-> "greeting", base_response |-> GreetingTemplate, fixed |-> TRUE ]
    ELSE IF PositiveMatch(prog, user_lower)
    THEN [ response_type |-> "happy_support", base_response |-> HappyTemplate, fixed |-> TRUE ]
    ELSE LET t == SelectTopic(TopicGroups(prog), General(prog), user_lower, 1)
         IN  [ response_type |-> t.response_type, base_response |-> t.base_response,
               fixed |-> FALSE ]

HighPreface(prog) ==
    IF prog = "jungian"
    THEN "I want you to know I'm truly sorry you're going through this. You are not alone.\n\n"
    ELSE "I want you to know I am truly sorry you're going through this. You're not alone in how you feel.\n\n"

ModeratePreface(prog) ==
    IF prog = "jungian"
    THEN "I can hear that this is tough for you, and I'm here to support you.\n\n"
    ELSE "I can hear that this is difficult for you, and I'm here to support you.\n\n"

\* A mutant of EmpathyPreface: the moderate level gets the high preface.
EmpathyPrefaceAlwaysHigh(prog, level) ==
    IF level = "high" \/ level = "moderate" THEN HighPreface(prog) ELSE ""

\* empathy_preface
EmpathyPreface(prog, level) ==
    IF level = "high" THEN HighPreface(prog)
    ELSE IF level = "moderate" THEN ModeratePreface(prog)
    ELSE ""

\* full_response: the fixed template alone in the greeting and positive-mood
\* branches, else the f-string of preface, template, blank line and
\* resource-tier text.
ComposeMessage(prog, branch, level, resource_text) ==
    IF branch.fixed THEN branch.base_response
    ELSE EmpathyPreface(prog, level) \o branch.base_response \o "\n\n" \o resource_text

-----------------------------------------------------------------------------
(* The inputs *)

\* The fragments messages are built from: words and phrases that hit the
\* regex patterns, the keyword groups, both or neither, some of them only as
\* a fragment of a longer word, some in upper case.
Vocabulary ==
    << "Hello", "this", "ok", "I Want To Die", "happy", "depressed",
       "panic attack", "nightmare", "triggered ptsd", "lonely", "angry", "grateful",
       "hopeful", " " >>

RECURSIVE JoinFrom(_, _)
JoinFrom(ws, i) ==
    IF i > Len(ws) THEN ""
    ELSE IF i = Len(ws) THEN Vocabulary[ws[i]]
    ELSE Vocabulary[ws[i]] \o " " \o JoinFrom(ws, i + 1)

\* Every message of at most MaxWords fragments.
Messages ==
    {JoinFrom(ws, 1) : ws \in UNION {[1..n -> 1..Len(Vocabulary)] : n \in 0..MaxWords}}

\* What the sentiment primitive (TextBlob) may return for a message, rounded
\* to three decimals: neutral, a positive text, the spec's moderate example
\* (-0.5, 0.8), a strongly negative text, and a text whose unrounded score
\* 0.65956 rounds to 0.66.
SentimentSamples ==
    { << 0, 0 >>, << 700, 600 >>, << 0 - 500, 800 >>, << 0 - 1000, 1000 >>,
      << 0 - 660, 499 >> }

\* TextBlob(text).sentiment, rounded: a text without any word (empty or
\* whitespace only) has no scored word, so polarity and subjectivity are 0.0;
\* any other text may get any of the samples.
SentimentOf(text) ==
    IF Strip(text) = "" THEN { << 0, 0 >> } ELSE SentimentSamples

None == "None"

\* The request threads of the server, and a call of the core that has not
\* begun, with its empty local variables.
Requests == 1..NumRequests
IdleCall == [ pc |-> "idle", user_message |-> None, response |-> None ]
EmptyFrame ==
    [ mental_health_analysis |-> None, resources |-> None, sympathy_analysis |-> None ]

\* A session id as /start-mental-health-journey issues them:
\* str(uuid.uuid4())[:8].
SessionIds == { "1a2b3c4d" }

\* The session_id field of a request body: absent (None), empty, or an id.
RequestSessionIds == { None, "" } \cup SessionIds

-----------------------------------------------------------------------------
(* The state machine: one request through generate_comprehensive_response *)

Init ==
    /\ program \in Programs
    /\ pc = "idle"
    /\ user_message = None
    /\ mental_health_analysis = None
    /\ resources = None
    /\ sympathy_analysis = None
    /\ response_type = None
    /\ base_response = None
    /\ resource_response = None
    /\ full_response = None
    /\ request = None
    /\ http_response = None
    /\ calls = [r \in Requests |-> IdleCall]
    /\ frames = [r \in Requests |-> EmptyFrame]
    /\ class_tables = [ CONCERN_PATTERNS |-> CONCERN_PATTERNS,
                        MENTAL_HEALTH_RESOURCES |-> MENTAL_HEALTH_RESOURCES ]
    /\ api_thread = "not_started"
    /\ window = "main"
    /\ session_id = None
    /\ conversation = << >>
    /\ error_box = None

\* The call: generate_comprehensive_response(user_message, session_id).
Receive ==
    /\ UNCHANGED otherVars
    /\ pc = "idle"
    /\ \E m \in Messages : user_message' = m
    /\ pc' = "analyze"
    /\ UNCHANGED << program, mental_health_analysis, resources, sympathy_analysis,
                    response_type, base_response, resource_response, full_response >>

\* mental_health_analysis = analyze_mental_health_needs(user_message)
AnalyzeNeeds ==
    /\ UNCHANGED otherVars
    /\ pc = "analyze"
    /\ mental_health_analysis' = analyze_mental_health_needs(user_message)
    /\ pc' = "resources"
    /\ UNCHANGED << program, user_message, resources, sympathy_analysis,
                    response_type, base_response, resource_response, full_response >>

\* resources = get_recommended_resources(mental_health_analysis)
GetResources ==
    /\ UNCHANGED otherVars
    /\ pc = "resources"
    /\ resources' \in get_recommended_resources(mental_health_analysis)
    /\ pc' = "sympathy"
    /\ UNCHANGED << program, user_message, mental_health_analysis, sympathy_analysis,
                    response_type, base_response, resource_response, full_response >>

\* sympathy_analysis = analyze_sympathy(user_message)
AnalyzeSympathy ==
    /\ UNCHANGED otherVars
    /\ pc = "sympathy"
    /\ \E s \in SentimentOf(user_message) :
         \E err \in FloatErrs(SympathyScoreNum(s[1], s[2])) :
            sympathy_analysis' = analyze_sympathy(s[1], s[2], err)
    /\ pc' = "compose"
    /\ UNCHANGED << program, user_message, mental_health_analysis, resources,
                    response_type, base_response, resource_response, full_response >>

\* The branch selection and the assembly of full_response.
Compose ==
    /\ UNCHANGED otherVars
    /\ pc = "compose"
    /\ LET branch == SelectBranch(program, UserLower(program, user_message))
           text == IF branch.fixed THEN None
                   ELSE create_mental_health_response(mental_health_analysis, resources)
       IN  /\ response_type' = branch.response_type
           /\ base_response' = branch.base_response
           /\ resource_response' = text
           /\ full_response' = ComposeMessage(program, branch,
                                   sympathy_analysis.sympathy_level, text)
    /\ pc' = "done"
    /\ UNCHANGED << program, user_message, mental_health_analysis, resources,
                    sympathy_analysis >>

\* The return: the locals of the call are gone, the next request may come.
Return ==
    /\ UNCHANGED otherVars
    /\ pc = "done"
    /\ pc' = "idle"
    /\ user_message' = None
    /\ mental_health_analysis' = None
    /\ resources' = None
    /\ sympathy_analysis' = None
    /\ response_type' = None
    /\ base_response' = None
    /\ resource_response' = None
    /\ full_response' = None
    /\ UNCHANGED program

Next ==
    \/ Receive
    \/ AnalyzeNeeds
    \/ GetResources
    \/ AnalyzeSympathy
    \/ Compose
    \/ Return

Spec == Init /\ [][Next]_vars

-----------------------------------------------------------------------------
(* The same request when the sentiment primitive can fail *)

\* blob = TextBlob(text) / blob.sentiment raises (the primitive fails or its
\* caller gives up waiting): analyze_sympathy has no try/except and neither
\* has generate_comprehensive_response, so the exception leaves both.
SentimentRaises ==
    /\ UNCHANGED otherVars
    /\ pc = "sympathy"
    /\ pc' = "raised"
    /\ UNCHANGED << program, user_message, mental_health_analysis, resources,
                    sympathy_analysis, response_type, base_response,
                    resource_response, full_response >>

\* The exception reaches the caller of generate_comprehensive_response: the
\* call is over without a return value.
RaiseUnwinds ==
    /\ UNCHANGED otherVars
    /\ pc = "raised"
    /\ pc' = "idle"
    /\ user_message' = None
    /\ mental_health_analysis' = None
    /\ resources' = None
    /\ UNCHANGED << program, sympathy_analysis, response_type, base_response,
                    resource_response, full_response >>

NextFault == Next \/ SentimentRaises \/ RaiseUnwinds

SpecFault == Init /\ [][NextFault]_vars

-----------------------------------------------------------------------------
(* The chat endpoint: POST /mental-health-guide *)

\* Python truth of an Optional[str]: None and "" are false.
Truthy(x) == x # None /\ x # ""

\* A mutant of EndpointCheck: the emptiness test is made on the message as
\* received, not on the stripped message.
EndpointCheckUnstripped(body) ==
    IF ~Truthy(body.session_id)
    THEN [ status_code |-> 400,
           detail |-> "Please start with /start-mental-health-journey first" ]
    ELSE IF body.message = ""
    THEN [ status_code |-> 400, detail |-> "Message cannot be empty" ]
    ELSE [ status_code |-> 200, detail |-> None ]

\* The two validations of mental_health_guided_chat, in their order: the
\* HTTPException raised, or status 200 when the request passes both.
EndpointCheck(body) ==
    IF ~Truthy(body.session_id)
    THEN [ status_code |-> 400,
           detail |-> "Please start with /start-mental-health-journey first" ]
    ELSE IF Strip(body.message) = ""
    THEN [ status_code |-> 400, detail |-> "Message cannot be empty" ]
    ELSE [ status_code |-> 200, detail |-> None ]

\* The JSON body returned by mental_health_guided_chat.
ChatBody(sid, response_data) ==
    [ status_code |-> 200,
      session_id |-> sid,
      response_type |-> response_data.response_type,
      companion_response |-> response_data.message,
      mental_health_analysis |-> response_data.mental_health_analysis,
      resources_provided |-> response_data.resources_provided,
      sympathy_analysis |-> response_data.sympathy_analysis,
      safety_note |-> "This system provides resource guidance, not medical treatment. "
                      \o "Always consult healthcare professionals for medical concerns." ]

\* A request reaches the endpoint.
ChatRequest ==
    /\ pc = "idle"
    /\ request = None
    /\ \E m \in Messages, sid \in RequestSessionIds :
          request' = [ message |-> m, session_id |-> sid ]
    /\ pc' = "endpoint"
    /\ UNCHANGED << program, user_message, mental_health_analysis, resources,
                    sympathy_analysis, response_type, base_response,
                    resource_response, full_response, http_response,
                    concurrentVars, class_tables, desktopVars >>

\* raise HTTPException(status_code=400, ...): the core is not called.
ChatReject ==
    /\ pc = "endpoint"
    /\ EndpointCheck(request).status_code = 400
    /\ http_response' = EndpointCheck(request)
    /\ pc' = "responded"
    /\ UNCHANGED << program, user_message, mental_health_analysis, resources,
                    sympathy_analysis, response_type, base_response,
                    resource_response, full_response, request,
                    concurrentVars, class_tables, desktopVars >>

\* companion_system.generate_comprehensive_response(user_message, session_id)
\* with user_message = message.message.strip().
ChatInvokeCore ==
    /\ pc = "endpoint"
    /\ EndpointCheck(request).status_code = 200
    /\ user_message' = Strip(request.message)
    /\ pc' = "analyze"
    /\ UNCHANGED << program, mental_health_analysis, resources,
                    sympathy_analysis, response_type, base_response,
                    resource_response, full_response, endpointVars,
                    concurrentVars, class_tables, desktopVars >>

\* The core has returned response_data; the endpoint returns its JSON body.
ChatRespond ==
    /\ pc = "done"
    /\ http_response' =
          ChatBody(request.session_id,
                   [ response_type |-> response_type,
                     message |-> full_response,
                     mental_health_analysis |-> mental_health_analysis,
                     resources_provided |-> resources,
                     sympathy_analysis |-> sympathy_analysis ])
    /\ pc' = "responded"
    /\ UNCHANGED << program, user_message, mental_health_analysis, resources,
                    sympathy_analysis, response_type, base_response,
                    resource_response, full_response, request,
                    concurrentVars, class_tables, desktopVars >>

\* The response is sent; the handler's variables are gone.
ChatClose ==
    /\ pc = "responded"
    /\ pc' = "idle"
    /\ request' = None
    /\ http_response' = None
    /\ user_message' = None
    /\ mental_health_analysis' = None
    /\ resources' = None
    /\ sympathy_analysis' = None
    /\ response_type' = None
    /\ base_response' = None
    /\ resource_response' = None
    /\ full_response' = None
    /\ UNCHANGED << program, concurrentVars, class_tables, desktopVars >>

NextEndpoint ==
    \/ ChatRequest
    \/ ChatReject
    \/ ChatInvokeCore
    \/ AnalyzeNeeds
    \/ GetResources
    \/ AnalyzeSympathy
    \/ Compose
    \/ ChatRespond
    \/ ChatClose

SpecEndpoint == Init /\ [][NextEndpoint]_vars

-----------------------------------------------------------------------------
(* Concurrent chat requests through the shared companion_system *)

\* The messages and the sentiment results of the concurrent requests.
ConcurrentMessages == { "Hello", "I Want To Die", "depressed", "panic attack" }
ConcurrentSentiments == { << 0, 0 >>, << 0 - 1000, 1000 >> }

\* The dict generate_comprehensive_response returns for a message, given the
\* sentiment result and the bundle that get_recommended_resources built.
CoreResponse(prog, message, sympathy, bundle) ==
    LET analysis == analyze_mental_health_needs(message)
        branch == SelectBranch(prog, UserLower(prog, message))
        text == IF branch.fixed THEN None
                ELSE create_mental_health_response(analysis, bundle)
    IN  [ response_type |-> branch.response_type,
          message |-> ComposeMessage(prog, branch, sympathy.sympathy_level, text),
          mental_health_analysis |-> analysis,
          resources_provided |-> bundle,
          sympathy_analysis |-> sympathy ]

\* What analyze_sympathy may return for a message.
SympathyResults(message) ==
    UNION { { analyze_sympathy(s[1], s[2], err) :
                 err \in FloatErrs(SympathyScoreNum(s[1], s[2])) } :
            s \in SentimentOf(message) }

\* Every dict the call may return for a message when it is handled alone.
CoreResponses(prog, message) ==
    { CoreResponse(prog, message, sympathy, b) :
         sympathy \in SympathyResults(message),
         b \in get_recommended_resources(analyze_mental_health_needs(message)) }

\* A mutant of FrameOf: the intermediate results are kept in one place shared
\* by all calls (as attributes of companion_system would be).
FrameOfShared(r) == 1

\* Where a call keeps mental_health_analysis, resources and
\* sympathy_analysis: they are local variables, so each call has its own.
FrameOf(r) == r

Call(r) == calls[r]
Frame(r) == frames[FrameOf(r)]

\* A request thread calls generate_comprehensive_response(user_message, ...).
CallReceive(r) ==
    /\ Call(r).pc = "idle"
    /\ \E m \in ConcurrentMessages :
          calls' = [calls EXCEPT ![r] = [ pc |-> "analyze", user_message |-> m,
                                          response |-> None ]]
    /\ UNCHANGED << coreVars, endpointVars, frames, class_tables, desktopVars >>

CallAnalyzeNeeds(r) ==
    /\ Call(r).pc = "analyze"
    /\ frames' = [frames EXCEPT ![FrameOf(r)].mental_health_analysis =
                      analyze_mental_health_needs(Call(r).user_message)]
    /\ calls' = [calls EXCEPT ![r].pc = "resources"]
    /\ UNCHANGED << coreVars, endpointVars, class_tables, desktopVars >>

CallGetResources(r) ==
    /\ Call(r).pc = "resources"
    /\ \E b \in get_recommended_resources(Frame(r).mental_health_analysis) :
          frames' = [frames EXCEPT ![FrameOf(r)].resources = b]
    /\ calls' = [calls EXCEPT ![r].pc = "sympathy"]
    /\ UNCHANGED << coreVars, endpointVars, class_tables, desktopVars >>

CallAnalyzeSympathy(r) ==
    /\ Call(r).pc = "sympathy"
    /\ \E s \in ConcurrentSentiments :
         \E err \in FloatErrs(SympathyScoreNum(s[1], s[2])) :
            frames' = [frames EXCEPT ![FrameOf(r)].sympathy_analysis =
                          analyze_sympathy(s[1], s[2], err)]
    /\ calls' = [calls EXCEPT ![r].pc = "compose"]
    /\ UNCHANGED << coreVars, endpointVars, class_tables, desktopVars >>

\* The branch selection, the assembly of the message and the returned dict.
CallCompose(r) ==
    /\ Call(r).pc = "compose"
    /\ LET branch == SelectBranch(program, UserLower(program, Call(r).user_message))
           text == IF branch.fixed THEN None
                   ELSE create_mental_health_response(Frame(r).mental_health_analysis,
                                                      Frame(r).resources)
       IN  calls' = [calls EXCEPT
                ![r].pc = "done",
                ![r].response =
                    [ response_type |-> branch.response_type,
                      message |-> ComposeMessage(program, branch,
                                      Frame(r).sympathy_analysis.sympathy_level, text),
                      mental_health_analysis |-> Frame(r).mental_health_analysis,
                      resources_provided |-> Frame(r).resources,
                      sympathy_analysis |-> Frame(r).sympathy_analysis ]]
    /\ UNCHANGED << coreVars, endpointVars, frames, class_tables, desktopVars >>

\* The request is answered; the call's local variables are gone.
CallReturn(r) ==
    /\ Call(r).pc = "done"
    /\ calls' = [calls EXCEPT ![r] = IdleCall]
    /\ frames' = [frames EXCEPT ![FrameOf(r)] = EmptyFrame]
    /\ UNCHANGED << coreVars, endpointVars, class_tables, desktopVars >>

NextConcurrent ==
    \E r \in Requests :
        \/ CallReceive(r)
        \/ CallAnalyzeNeeds(r)
        \/ CallGetResources(r)
        \/ CallAnalyzeSympathy(r)
        \/ CallCompose(r)
        \/ CallReturn(r)

SpecConcurrent == Init /\ [][NextConcurrent]_vars

-----------------------------------------------------------------------------
(* The desktop program: the API on a daemon thread, the chat window *)

\* What the user may type into the input line.
DesktopInputs == { "", " ", "Hello", "depressed", " panic attack " }

StartsWith(text, prefix) ==
    Len(text) >= Len(prefix) /\ SubSeq(text, 1, Len(prefix)) = prefix

\* The messages the window has sent so far (its "You: ..." lines).
Sends == Cardinality({i \in 1..Len(conversation) : StartsWith(conversation[i], "You: ")})

\* resp.text of a rejected request: FastAPI's JSON body of the HTTPException.
ErrorText(detail) == "{\"detail\":\"" \o detail \o "\"}"

\* The desktop program is part_000.
InitDesktop == Init /\ program = "jungian"

\* __main__: api_thread.start(); the main thread goes on to create the
\* QApplication and to construct the chat window.
StartApiThread ==
    /\ window = "main"
    /\ api_thread = "not_started"
    /\ api_thread' = "starting"
    /\ window' = "constructing"
    /\ UNCHANGED << coreVars, endpointVars, concurrentVars, class_tables,
                    session_id, conversation, error_box >>

\* run_api on the daemon thread: uvicorn.run has bound port 8000 and serves.
RunApi ==
    /\ api_thread = "starting"
    /\ api_thread' = "listening"
    /\ UNCHANGED << coreVars, endpointVars, concurrentVars, class_tables,
                    window, session_id, conversation, error_box >>

\* MentalHealthChat.__init__ calls start_session once: the POST succeeds
\* when the server listens, and raises (connection refused) when it does not
\* yet; the except branch shows an error box and session_id stays None.
StartSession ==
    /\ window = "constructing"
    /\ IF api_thread = "listening"
       THEN /\ \E sid \in SessionIds : session_id' = sid
            /\ conversation' = Append(conversation, "Session started.\n")
            /\ UNCHANGED error_box
       ELSE /\ error_box' = "Could not connect to backend."
            /\ UNCHANGED << session_id, conversation >>
    /\ window' = "shown"
    /\ UNCHANGED << coreVars, endpointVars, concurrentVars, class_tables, api_thread >>

\* MentalHealthChat.send_message: returns at once on a blank input; else
\* shows the text, posts it with self.session_id and shows the companion
\* response, the API's error, or an error box when the POST raises. The
\* server handles the request while the window waits.
SendMessage ==
    /\ window = "shown"
    /\ \E user_text \in DesktopInputs :
          IF Strip(user_text) = ""
          THEN UNCHANGED << conversation, error_box >>
          ELSE /\ Sends < MaxSends
               /\ LET payload == [ message |-> user_text, session_id |-> session_id ]
                      shown == Append(conversation, "You: " \o user_text)
                      check == EndpointCheck(payload)
                  IN  IF api_thread # "listening"
                      THEN /\ conversation' = shown
                           /\ error_box' = "Could not send message to backend."
                      ELSE IF check.status_code = 400
                      THEN /\ conversation' =
                                 Append(shown, "Error from API: " \o ErrorText(check.detail))
                           /\ UNCHANGED error_box
                      ELSE /\ \E response_data \in CoreResponses(program, Strip(user_text)) :
                                 conversation' =
                                     Append(shown, "Companion:\n"
                                        \o ChatBody(session_id, response_data).companion_response
                                        \o "\n")
                           /\ UNCHANGED error_box
    /\ UNCHANGED << coreVars, endpointVars, concurrentVars, class_tables,
                    api_thread, window, session_id >>

NextDesktop ==
    \/ StartApiThread
    \/ RunApi
    \/ StartSession
    \/ SendMessage

SpecDesktop == InitDesktop /\ [][NextDesktop]_vars

-----------------------------------------------------------------------------
(* analyze_sympathy alone, over every sentiment of the three-decimal grid *)

\* analyze_sympathy called with a text whose sentiment is any grid point.
SympathyCall ==
    /\ UNCHANGED otherVars
    /\ pc = "idle"
    /\ \E polarity \in Polarities, subjectivity \in Subjectivities :
         \E err \in FloatErrs(SympathyScoreNum(polarity, subjectivity)) :
            sympathy_analysis' = analyze_sympathy(polarity, subjectivity, err)
    /\ pc' = "sympathy_done"
    /\ UNCHANGED << program, user_message, mental_health_analysis, resources,
                    response_type, base_response, resource_response, full_response >>

SympathyReturn ==
    /\ UNCHANGED otherVars
    /\ pc = "sympathy_done"
    /\ pc' = "idle"
    /\ sympathy_analysis' = None
    /\ UNCHANGED << program, user_message, mental_health_analysis, resources,
                    response_type, base_response, resource_response, full_response >>

SympathyNext == SympathyCall \/ SympathyReturn

\* analyze_sympathy is the same code in both programs: one of them is run.
InitSympathy == Init /\ program = "main"

SpecSympathy == InitSympathy /\ [][SympathyNext]_vars

-----------------------------------------------------------------------------
(* Vocabulary of the properties *)

Done == pc = "done"
TopicBranch == Done /\ resource_response # None
LoweredMessage == UserLower(program, user_message)

LetterSet == UpperSet \cup {SubSeq(LowerLetters, i, i) : i \in 1..Len(LowerLetters)}
IsLetter(c) == c \in LetterSet

\* `word` occurs in `text` as a whole word or phrase: an occurrence with no
\* letter right before it and none right after it.
WholeWord(text, word) ==
    \E i \in 1..(Len(text) - Len(word) + 1) :
        /\ SubSeq(text, i, i + Len(word) - 1) = word
        /\ i = 1 \/ ~IsLetter(SubSeq(text, i - 1, i - 1))
        /\ i + Len(word) > Len(text) \/ ~IsLetter(SubSeq(text, i + Len(word), i + Len(word)))

\* The lines of a text (split at "\n").
LinesOf(text) ==
    LET nl == {i \in 1..Len(text) : SubSeq(text, i, i) = "\n"}
        starts == {0} \cup nl
        ends == nl \cup {Len(text) + 1}
        EndOf(a) == CHOOSE b \in ends : b > a /\ \A k \in ends : k > a => b <= k
    IN  {SubSeq(text, a + 1, EndOf(a) - 1) : a \in starts}

\* The text lists a resource line: it has the bullet line of it.
Lists(text, line) == ("* " \o line) \in LinesOf(text)

UrgencyRank(u) ==
    CASE u = "low" -> 0 [] u = "moderate" -> 1 [] u = "high" -> 2 [] u = "immediate" -> 3

\* The categories one of whose patterns matches the lower-cased text.
MatchedCategories(text) ==
    {c \in Range(CategoryOrder) :
        \E j \in 1..Len(CONCERN_PATTERNS[c].patterns) :
            ReSearch(CONCERN_PATTERNS[c].patterns[j], Lower(text))}

\* The greatest urgency among the matched categories, "low" when none matched.
MaxUrgency(matched) ==
    CHOOSE u \in {"low"} \cup {CONCERN_PATTERNS[c].urgency : c \in matched} :
        \A c \in matched : UrgencyRank(CONCERN_PATTERNS[c].urgency) <= UrgencyRank(u)

DetectedTypes(analysis) ==
    {analysis.detected_concerns[i].type : i \in 1..Len(analysis.detected_concerns)}

CrisisResourceLines == MENTAL_HEALTH_RESOURCES["immediate_crisis"].resources

-----------------------------------------------------------------------------
(* C1 *)

\* C1: whenever the analysis reports needs_immediate_help, the returned
\* message contains each of the four immediate_crisis resource lines, whatever
\* other keywords the message has. (The statement of the claim; part_000
\* violates it.)
C1_CrisisLinesInEveryCrisisReply ==
    (Done /\ mental_health_analysis.needs_immediate_help)
        => \A k \in 1..Len(CrisisResourceLines) :
              Contains(full_response, CrisisResourceLines[k])

-----------------------------------------------------------------------------
(* C2 *)

\* C2: for every text and every order in which the four categories are
\* iterated, highest_urgency is the greatest urgency among the matched
\* categories (immediate > high > moderate > low, low when none matched); a
\* text matching a crisis pattern always yields immediate.
C2_HighestUrgencyIsMaximum ==
    pc = "resources" =>
        LET matched == MatchedCategories(user_message)
            expected == MaxUrgency(matched)
        IN  /\ mental_health_analysis.highest_urgency = expected
            /\ \A order \in Orderings(Range(CategoryOrder)) :
                  AnalyzeInOrder(user_message, order).highest_urgency = expected
            /\ "crisis_immediate" \in matched
                  => mental_health_analysis.highest_urgency = "immediate"

\* C2 witness: a crisis match followed by a moderate (anxiety) match, the
\* result still immediate.
C2_Witness ==
    /\ pc = "resources"
    /\ Len(mental_health_analysis.detected_concerns) >= 2
    /\ mental_health_analysis.detected_concerns[1].urgency = "immediate"
    /\ mental_health_analysis.detected_concerns[
          Len(mental_health_analysis.detected_concerns)].urgency = "moderate"
    /\ mental_health_analysis.highest_urgency = "immediate"

-----------------------------------------------------------------------------
(* C3 *)

\* C3: the bundle's key set is exactly what the rules give: immediate_crisis
\* iff needs_immediate_help; therapy_services iff needs_professional_help or a
\* trauma_signs concern; depression_support iff a depression_signs concern;
\* anxiety_support iff an anxiety_signs concern. No key appears twice and each
\* key maps to its catalog entry.
C3_BundleIsUnionOfRules ==
    pc = "sympathy" =>
        LET a == mental_health_analysis
            types == DetectedTypes(a)
        IN  /\ ("immediate_crisis" \in Keys(resources)) <=> a.needs_immediate_help
            /\ ("therapy_services" \in Keys(resources))
                  <=> (a.needs_professional_help \/ "trauma_signs" \in types)
            /\ ("depression_support" \in Keys(resources)) <=> ("depression_signs" \in types)
            /\ ("anxiety_support" \in Keys(resources)) <=> ("anxiety_signs" \in types)
            /\ Keys(resources) \subseteq ResourceCategoryIds
            /\ Cardinality(Keys(resources)) = Len(resources)
            /\ \A i \in 1..Len(resources) :
                  resources[i].value = MENTAL_HEALTH_RESOURCES[resources[i].key]

\* C3 witness: the trauma rule and the professional-help rule both add
\* therapy_services, and the bundle holds it once.
C3_Witness ==
    /\ pc = "sympathy"
    /\ "trauma_signs" \in DetectedTypes(mental_health_analysis)
    /\ mental_health_analysis.needs_professional_help
    /\ Len(SelectSeq(ResourceCategoryList(mental_health_analysis),
                     LAMBDA c : c = "therapy_services")) = 2
    /\ Len(SelectSeq(resources, LAMBDA item : item.key = "therapy_services")) = 1

-----------------------------------------------------------------------------
(* C4 *)

\* C4: in part_000 the greeting branch is taken if and only if a greeting
\* vocabulary entry occurs in the lower-cased message as a whole word or
\* phrase; letters inside a longer word ("this", "nothing", "they") do not
\* select it. (The statement of the claim; the code tests substrings.)
C4_GreetingIffWholeWord ==
    (Done /\ program = "jungian") =>
        ((response_type = "greeting")
            <=> \E k \in 1..Len(GreetingWords) :
                    WholeWord(LoweredMessage, GreetingWords[k]))

-----------------------------------------------------------------------------
(* C5 *)

\* C5: in part_000 the greeting test has priority over the positive-mood
\* test, which has priority over the topic groups (a word matching when it
\* occurs in the message, as the code tests it): a message with a greeting
\* match gets "greeting", one with a positive-mood match and no greeting match
\* gets "happy_support"; in both branches the message is exactly the fixed
\* template, whatever the analysis and the sentiment.
C5_FixedBranchPriority ==
    (Done /\ program = "jungian") =>
        LET greet == AnyIn(GreetingWords, LoweredMessage)
            positive == AnyIn(PositiveWords, LoweredMessage)
        IN  /\ greet => response_type = "greeting"
            /\ (positive /\ ~greet) => response_type = "happy_support"
            /\ (~positive /\ ~greet) => response_type \notin {"greeting", "happy_support"}
            /\ response_type = "greeting" => full_response = GreetingTemplate
            /\ response_type = "happy_support" => full_response = HappyTemplate

\* C5 witness: a message with a positive-mood word and a topic word, no
\* greeting match, an analysis that needs professional help and a high
\* sympathy level, answered with the celebratory template alone.
C5_Witness ==
    /\ Done /\ program = "jungian"
    /\ response_type = "happy_support"
    /\ \E i \in 1..Len(JungianTopicGroups) :
          AnyIn(JungianTopicGroups[i].words, LoweredMessage)
    /\ mental_health_analysis.needs_professional_help
    /\ sympathy_analysis.sympathy_level = "high"
    /\ full_response = HappyTemplate

-----------------------------------------------------------------------------
(* C6 *)

\* The order of the topic groups that the claim states.
C6_GroupOrder ==
    << "depression_support", "anxiety_support", "loneliness_support", "anger_support",
       "gratitude_support", "hope_support", "dream_analysis", "trauma_support" >>

\* C6: in part_000, outside the greeting and positive-mood branches,
\* response_type is that of the first group, in the stated order, one of
\* whose keywords occurs in the message, and general_support when none does;
\* a message whose only topic keyword is "nightmare" gets dream_analysis, and
\* trauma_support needs "trauma", "flashback" or "ptsd" and no earlier match.
C6_FirstMatchingGroupWins ==
    (Done /\ program = "jungian" /\ response_type \notin {"greeting", "happy_support"}) =>
        LET matching == {i \in 1..Len(JungianTopicGroups) :
                            AnyIn(JungianTopicGroups[i].words, LoweredMessage)}
            first == CHOOSE i \in matching : \A j \in matching : i <= j
        IN  /\ Len(JungianTopicGroups) = Len(C6_GroupOrder)
            /\ \A i \in 1..Len(C6_GroupOrder) :
                  JungianTopicGroups[i].response_type = C6_GroupOrder[i]
            /\ matching = {} => response_type = "general_support"
            /\ matching # {} => response_type = C6_GroupOrder[first]
            /\ (Contains(LoweredMessage, "nightmare") /\ matching \subseteq {7, 8})
                  => response_type = "dream_analysis"
            /\ response_type = "trauma_support"
                  => /\ AnyIn(<< "trauma", "flashback", "ptsd" >>, LoweredMessage)
                     /\ matching = {8}

\* C6 witness: "nightmare" is the only topic keyword, both the dream and the
\* trauma group match, and the reply is dream_analysis.
C6_Witness ==
    /\ Done /\ program = "jungian"
    /\ Contains(LoweredMessage, "nightmare")
    /\ AnyIn(JungianTopicGroups[7].words, LoweredMessage)
    /\ AnyIn(JungianTopicGroups[8].words, LoweredMessage)
    /\ \A i \in 1..6 : ~AnyIn(JungianTopicGroups[i].words, LoweredMessage)
    /\ response_type = "dream_analysis"

-----------------------------------------------------------------------------
(* C7 *)

\* The resource lines of a catalog category, as a set.
LinesOfCategory(k) == Range(MENTAL_HEALTH_RESOURCES[k].resources)

\* The text has a header line of category k, in either form.
HeaderWithDescription(k) ==
    MENTAL_HEALTH_RESOURCES[k].name \o " - " \o MENTAL_HEALTH_RESOURCES[k].description \o ":"
HeaderNameOnly(k) == MENTAL_HEALTH_RESOURCES[k].name \o ":"

\* C7: create_mental_health_response, given the analysis and the bundle
\* selected for it, uses exactly one tier. Crisis: the four immediate_crisis
\* lines and no line of another category. Professional: every selected
\* category but immediate_crisis, with the header "name - description" and
\* all of its lines. Otherwise: every selected category, with the header of
\* the name only and its first two lines only.
C7_ExactlyOneResourceTier ==
    TopicBranch =>
        LET a == mental_health_analysis
            lines == LinesOf(resource_response)
            listed(k) == {l \in LinesOfCategory(k) : ("* " \o l) \in lines}
            selected == Keys(resources)
        IN  IF a.needs_immediate_help
            THEN /\ listed("immediate_crisis") = Range(CrisisResourceLines)
                 /\ Cardinality(Range(CrisisResourceLines)) = 4
                 /\ \A k \in ResourceCategoryIds \ {"immediate_crisis"} :
                       /\ listed(k) = {}
                       /\ HeaderWithDescription(k) \notin lines
                       /\ HeaderNameOnly(k) \notin lines
            ELSE IF a.needs_professional_help
            THEN \A k \in ResourceCategoryIds :
                    IF k \in selected \ {"immediate_crisis"}
                    THEN /\ HeaderWithDescription(k) \in lines
                         /\ listed(k) = LinesOfCategory(k)
                    ELSE /\ HeaderWithDescription(k) \notin lines
                         /\ HeaderNameOnly(k) \notin lines
                         /\ listed(k) = {}
            ELSE \A k \in ResourceCategoryIds :
                    IF k \in selected
                    THEN /\ HeaderNameOnly(k) \in lines
                         /\ HeaderWithDescription(k) \notin lines
                         /\ listed(k) = { MENTAL_HEALTH_RESOURCES[k].resources[1],
                                          MENTAL_HEALTH_RESOURCES[k].resources[2] }
                         /\ Cardinality(listed(k)) = 2
                    ELSE /\ HeaderNameOnly(k) \notin lines
                         /\ HeaderWithDescription(k) \notin lines
                         /\ listed(k) = {}

\* C7 witness: a crisis reply whose bundle also holds therapy_services and
\* another category, none of which is listed.
C7_Witness ==
    /\ TopicBranch
    /\ mental_health_analysis.needs_immediate_help
    /\ Cardinality(Keys(resources)) >= 3
    /\ Lists(resource_response, CrisisResourceLines[4])

-----------------------------------------------------------------------------
(* C8 *)

\* C8: in the topic branch the message is the empathy preface, the base
\* template, a blank line and the resource-tier text, in this order; the
\* preface is the high string iff the sympathy level is high, the (different)
\* moderate string iff it is moderate, and empty iff it is low.
C8_MessageIsPrefaceTemplateResources ==
    TopicBranch =>
        LET level == sympathy_analysis.sympathy_level
            rest == base_response \o "\n\n" \o resource_response
        IN  /\ HighPreface(program) # ModeratePreface(program)
            /\ HighPreface(program) # "" /\ ModeratePreface(program) # ""
            /\ (full_response = HighPreface(program) \o rest) <=> (level = "high")
            /\ (full_response = ModeratePreface(program) \o rest) <=> (level = "moderate")
            /\ (full_response = rest) <=> (level = "low")
            /\ resource_response
                  = create_mental_health_response(mental_health_analysis, resources)

\* C8 witness: the scenario of the specification: an anxious message with
\* sentiment (-0.5, 0.8), level moderate, the moderate preface in front.
C8_Witness ==
    /\ TopicBranch
    /\ response_type = "anxiety_support"
    /\ sympathy_analysis.polarity = 0 - 500
    /\ sympathy_analysis.subjectivity = 800
    /\ sympathy_analysis.sympathy_level = "moderate"
    /\ SubSeq(full_response, 1, Len(ModeratePreface(program))) = ModeratePreface(program)

-----------------------------------------------------------------------------
(* C9 *)

SympathyDone == pc = "sympathy_done"

\* The grid points a result is compared with: the next more negative
\* polarity and the next greater subjectivity (by transitivity of <= these
\* give every pair of the grid) and some far ones.
C9_LowerPolarities(p) == {q \in {p - 1, p - 100, 0 - Scale} : q \in Polarities /\ q <= p}
C9_HigherSubjectivities(t) == {u \in {t + 1, t + 100, Scale} : u \in Subjectivities /\ u >= t}

\* C9: for every polarity and subjectivity of the three-decimal grid the
\* sympathy score lies in [0, 1], does not decrease when the polarity
\* decreases with the subjectivity fixed, and does not decrease when the
\* subjectivity increases with the polarity fixed; this for the unrounded
\* score and for the reported one.
C9_ScoreInRangeAndMonotone ==
    SympathyDone =>
        LET p == sympathy_analysis.polarity
            t == sympathy_analysis.subjectivity
            score == sympathy_analysis.sympathy_score
            num == SympathyScoreNum(p, t)
        IN  /\ 0 <= score /\ score <= Scale
            /\ 0 <= num /\ num <= ScoreDen
            /\ \A e \in FloatErrs(num) : 0 <= Round3(num, e) /\ Round3(num, e) <= Scale
            /\ \A q \in C9_LowerPolarities(p) :
                  /\ SympathyScoreNum(q, t) >= num
                  /\ \A e \in FloatErrs(SympathyScoreNum(q, t)) :
                        analyze_sympathy(q, t, e).sympathy_score >= score
            /\ \A u \in C9_HigherSubjectivities(t) :
                  /\ SympathyScoreNum(p, u) >= num
                  /\ \A e \in FloatErrs(SympathyScoreNum(p, u)) :
                        analyze_sympathy(p, u, e).sympathy_score >= score

\* C9 witness: a score strictly inside (0, 1) that is strictly below the
\* score of the next more negative polarity.
C9_Witness ==
    /\ SympathyDone
    /\ sympathy_analysis.polarity = 0 - 500
    /\ sympathy_analysis.subjectivity = 800
    /\ sympathy_analysis.sympathy_score = 600
    /\ analyze_sympathy(0 - 501, 800, 0).sympathy_score > 600

-----------------------------------------------------------------------------
(* C10 *)

\* C10 as stated: the reported level agrees with the reported three-decimal
\* score under the thresholds: high iff score >= 0.66, moderate iff
\* 0.33 <= score < 0.66, low iff score < 0.33. (The code decides the level
\* before it rounds the score, so this fails.)
C10_LevelAgreesWithReportedScore ==
    SympathyDone =>
        LET score == sympathy_analysis.sympathy_score
            level == sympathy_analysis.sympathy_level
        IN  /\ (level = "high") <=> (score >= HighThreshold)
            /\ (level = "moderate") <=> (ModerateThreshold <= score /\ score < HighThreshold)
            /\ (level = "low") <=> (score < ModerateThreshold)

\* C10 amended: the level is decided by the thresholds on the unrounded
\* score. Against the reported score it agrees except on a threshold itself:
\* a reported score above 0.66 is high, one strictly between 0.33 and 0.66 is
\* moderate, one below 0.33 is low; a reported 0.66 comes with high or
\* moderate and a reported 0.33 with moderate or low.
C10_LevelAgreesWithUnroundedScore ==
    SympathyDone =>
        LET score == sympathy_analysis.sympathy_score
            level == sympathy_analysis.sympathy_level
            num == SympathyScoreNum(sympathy_analysis.polarity, sympathy_analysis.subjectivity)
        IN  /\ level \in {"high", "moderate", "low"}
            /\ num * Scale > HighThreshold * ScoreDen => level = "high"
            /\ num * Scale < HighThreshold * ScoreDen => level # "high"
            /\ num * Scale > ModerateThreshold * ScoreDen => level # "low"
            /\ num * Scale < ModerateThreshold * ScoreDen => level = "low"
            /\ score > HighThreshold => level = "high"
            /\ (ModerateThreshold < score /\ score < HighThreshold) => level = "moderate"
            /\ score < ModerateThreshold => level = "low"
            /\ score = HighThreshold => level \in {"high", "moderate"}
            /\ score = ModerateThreshold => level \in {"moderate", "low"}

\* C10 witness: polarity -0.66 and subjectivity 0.499 give the unrounded
\* score 0.65956: level moderate, reported score 0.66.
C10_Witness ==
    /\ SympathyDone
    /\ sympathy_analysis.polarity = 0 - 660
    /\ sympathy_analysis.subjectivity = 499
    /\ sympathy_analysis.sympathy_score = 660
    /\ sympathy_analysis.sympathy_level = "moderate"

-----------------------------------------------------------------------------
(* C11 *)

\* C11: when the sentiment primitive fails, generate_comprehensive_response
\* still returns a complete response computed with neutral sentiment; no
\* fault reaches its caller, that is, the call is never left by an
\* exception. (The statement of the claim; both programs violate it.)
C11_NoFaultReachesCaller == pc # "raised"

-----------------------------------------------------------------------------
(* C12 *)

Blank(text) == Strip(text) = ""

\* C12: for the empty string and every whitespace-only string the core
\* returns no detected concern, highest_urgency "low", both help flags false,
\* an empty bundle, sympathy level "low" and response_type "general_support",
\* the message being the general template followed by the low-urgency tier
\* with no category block and no resource line.
C12_BlankMessageIsGeneralSupport ==
    (Done /\ Blank(user_message)) =>
        /\ mental_health_analysis.detected_concerns = << >>
        /\ mental_health_analysis.highest_urgency = "low"
        /\ ~mental_health_analysis.needs_immediate_help
        /\ ~mental_health_analysis.needs_professional_help
        /\ resources = << >>
        /\ sympathy_analysis.sympathy_level = "low"
        /\ response_type = "general_support"
        /\ full_response = General(program).base_response \o "\n\n" \o GeneralTier(<< >>)
        /\ \A k \in ResourceCategoryIds :
              /\ ~Contains(full_response, MENTAL_HEALTH_RESOURCES[k].name)
              /\ \A j \in 1..Len(MENTAL_HEALTH_RESOURCES[k].resources) :
                    ~Lists(full_response, MENTAL_HEALTH_RESOURCES[k].resources[j])

\* A whitespace-only message of three blanks has been answered.
C12_Witness == Done /\ Blank(user_message) /\ Len(user_message) = 3

-----------------------------------------------------------------------------
(* C13 *)

\* The message the request gets when the bundle comes out in another order.
MessageFor(bundle) ==
    LET branch == SelectBranch(program, LoweredMessage)
    IN  ComposeMessage(program, branch, sympathy_analysis.sympathy_level,
            IF branch.fixed THEN None
            ELSE create_mental_health_response(mental_health_analysis, bundle))

\* The categories whose block the resource tier of the request lists: the
\* crisis tier lists the crisis lines only, the other tiers every bundled
\* category.
ListedCategories ==
    IF resource_response = None THEN {}
    ELSE IF mental_health_analysis.needs_immediate_help
    THEN Keys(resources) \cap {"immediate_crisis"}
    ELSE Keys(resources) \ {"immediate_crisis"}

\* C13 (as stated): for a fixed message text and sentiment result the
\* composed message is the same string for every iteration order of the set
\* that deduplicates the resource categories.
C13_MessageSameForEverySetOrder ==
    Done => \A b \in get_recommended_resources(mental_health_analysis) :
                MessageFor(b) = full_response

\* The bundle of the request in one fixed order of its categories.
ReferenceBundle ==
    BuildResources(CHOOSE u \in Orderings(Keys(resources)) : TRUE)

\* C13 (amended): for a fixed message text, sentiment result and set order
\* the message is the same string; across set orders the messages have the
\* same length and the same lines (every request's message has those of the
\* message built with the bundle in one fixed order), and they are the same
\* string whenever the tier lists at most one category.
C13_MessageSameUpToBlockOrder ==
    Done => LET reference == MessageFor(ReferenceBundle)
            IN  /\ MessageFor(resources) = full_response
                /\ \/ reference = full_response
                   \/ /\ Cardinality(ListedCategories) > 1
                      /\ Len(reference) = Len(full_response)
                      /\ LinesOf(reference) = LinesOf(full_response)

\* A request whose tier lists two categories, and for which another set
\* order gives another message.
C13_Witness ==
    /\ Done
    /\ Cardinality(ListedCategories) = 2
    /\ \E b \in get_recommended_resources(mental_health_analysis) :
          MessageFor(b) # full_response

-----------------------------------------------------------------------------
(* C16 *)

CategoryIndex(c) == CHOOSE i \in 1..Len(CategoryOrder) : CategoryOrder[i] = c

\* The number of patterns of a category that match the lower-cased text.
MatchingPatterns(c, text) ==
    Cardinality({j \in 1..Len(CONCERN_PATTERNS[c].patterns) :
                    ReSearch(CONCERN_PATTERNS[c].patterns[j], Lower(text))})

\* C16: detected_concerns has at most one concern per category, even when
\* several patterns of the category match; it is ordered by declaration order
\* of the categories, not by severity; a category is in it if and only if
\* one of its patterns matches the lower-cased text.
C16_OneConcernPerCategoryInDeclarationOrder ==
    pc = "resources" =>
        LET d == mental_health_analysis.detected_concerns
        IN  /\ \A i, j \in 1..Len(d) :
                  i < j => CategoryIndex(d[i].type) < CategoryIndex(d[j].type)
            /\ DetectedTypes(mental_health_analysis) = MatchedCategories(user_message)
            /\ \A i \in 1..Len(d) : d[i] = Concern(d[i].type)

\* A text with two matching trauma patterns and an anxiety pattern: the
\* moderate concern comes before the high one.
C16_Witness ==
    /\ pc = "resources"
    /\ MatchingPatterns("trauma_signs", user_message) >= 2
    /\ Len(mental_health_analysis.detected_concerns) = 2
    /\ mental_health_analysis.detected_concerns[1].type = "anxiety_signs"
    /\ mental_health_analysis.detected_concerns[2].type = "trauma_signs"

-----------------------------------------------------------------------------
(* C17 *)

\* C17: needs_immediate_help is true exactly when highest_urgency is
\* "immediate", needs_professional_help exactly when it is "immediate" or
\* "high"; so the first flag implies the second, and a text matching only
\* anxiety_signs patterns has highest_urgency "moderate" and both flags
\* false.
C17_FlagsFollowUrgency ==
    pc = "resources" =>
        LET a == mental_health_analysis
        IN  /\ a.needs_immediate_help <=> a.highest_urgency = "immediate"
            /\ a.needs_professional_help <=> a.highest_urgency \in {"immediate", "high"}
            /\ a.needs_immediate_help => a.needs_professional_help
            /\ MatchedCategories(user_message) = {"anxiety_signs"}
                  => /\ a.highest_urgency = "moderate"
                     /\ ~a.needs_immediate_help
                     /\ ~a.needs_professional_help

\* A text that matches anxiety_signs patterns only has been analysed.
C17_Witness ==
    /\ pc = "resources"
    /\ MatchedCategories(user_message) = {"anxiety_signs"}

-----------------------------------------------------------------------------
(* C18 *)

\* C18: the bundle is empty iff no concern was detected iff highest_urgency
\* is "low"; therapy_services is in the bundle iff needs_professional_help;
\* and when needs_professional_help is false (the low-urgency tier) the
\* bundle holds at most the single category anxiety_support.
C18_BundleConsistentWithAnalysis ==
    pc = "sympathy" =>
        LET a == mental_health_analysis
        IN  /\ resources = << >> <=> a.detected_concerns = << >>
            /\ a.detected_concerns = << >> <=> a.highest_urgency = "low"
            /\ "therapy_services" \in Keys(resources) <=> a.needs_professional_help
            /\ ~a.needs_professional_help
                  => /\ Keys(resources) \subseteq {"anxiety_support"}
                     /\ Len(resources) <= 1

\* The low-urgency tier with its one possible category.
C18_Witness ==
    /\ pc = "sympathy"
    /\ ~mental_health_analysis.needs_professional_help
    /\ Keys(resources) = {"anxiety_support"}

-----------------------------------------------------------------------------
(* C15 *)

\* C15: the chat endpoint rejects with HTTP 400, without calling the core, a
\* request whose session_id is missing or empty and a request whose message
\* is empty after stripping; every other request goes to the core with the
\* stripped message and its response echoes the request's session_id. So the
\* core is never invoked by the endpoint with an empty message.
C15_EndpointValidatesBeforeCore ==
    /\ pc = "responded" =>
          LET bad == ~Truthy(request.session_id) \/ Blank(request.message)
          IN  /\ bad <=> http_response.status_code = 400
              /\ bad => user_message = None
              /\ ~bad => /\ http_response.status_code = 200
                         /\ http_response.session_id = request.session_id
                         /\ http_response.companion_response = full_response
                         /\ user_message = Strip(request.message)
    /\ pc \in {"analyze", "resources", "sympathy", "compose", "done"} =>
          /\ Truthy(request.session_id)
          /\ user_message = Strip(request.message)
          /\ user_message # ""

\* A request with blanks around its message has been answered with 200.
C15_Witness ==
    /\ pc = "responded"
    /\ http_response.status_code = 200
    /\ request.message # Strip(request.message)

-----------------------------------------------------------------------------
(* C14 *)

\* C14: chat requests handled concurrently through the shared
\* companion_system are independent: in every interleaving each request works
\* on the analysis of its own message, its response is a response the same
\* message gets when handled alone (the dict generate_comprehensive_response
\* returns for that message with one of its sentiment results and one of its
\* bundles), and the shared CONCERN_PATTERNS and MENTAL_HEALTH_RESOURCES
\* tables are never changed.
C14_RequestsAreIndependent ==
    /\ class_tables = [ CONCERN_PATTERNS |-> CONCERN_PATTERNS,
                        MENTAL_HEALTH_RESOURCES |-> MENTAL_HEALTH_RESOURCES ]
    /\ \A r \in Requests :
          /\ Call(r).pc = "done" =>
                LET message == Call(r).user_message
                    response == Call(r).response
                IN  /\ response.sympathy_analysis \in SympathyResults(message)
                    /\ response.resources_provided \in
                          get_recommended_resources(analyze_mental_health_needs(message))
                    /\ response = CoreResponse(program, message,
                                      response.sympathy_analysis,
                                      response.resources_provided)
          /\ Call(r).pc = "resources" =>
                Frame(r).mental_health_analysis =
                    analyze_mental_health_needs(Call(r).user_message)

\* Two requests with different messages have been handled at the same time
\* and both have their response.
C14_Witness ==
    \E r1, r2 \in Requests :
        /\ r1 # r2
        /\ Call(r1).pc = "done"
        /\ Call(r2).pc = "done"
        /\ Call(r1).user_message # Call(r2).user_message

-----------------------------------------------------------------------------
(* C19 *)

\* C19: for every interleaving of the server thread's start-up with the
\* window's start_session call, the window ends up holding a session id
\* issued by /start-mental-health-journey, and no non-empty message sent with
\* send_message is answered with an API error. (The statement of the claim;
\* part_000 violates it.)
C19_WindowHoldsIssuedSession ==
    /\ window = "shown" => session_id \in SessionIds
    /\ \A i \in 1..Len(conversation) :
          ~StartsWith(conversation[i], "Error from API: ")

====
